---- MODULE Spec2Model ----
(***************************************************************************)
(* Test run orchestrator of freeCodeCampOS (src/unnamed/part_000):         *)
(* runTests, workerMessage, checkTestsCallback, handleWorkerExit and the   *)
(* process-wide WORKER_POOL.                                               *)
(*                                                                         *)
(* JavaScript runs one callback at a time and yields only at an await, so  *)
(* every action below is the code between two awaits of one function       *)
(* activation.  The workers themselves and the collaborators (plugin       *)
(* events, client socket, state store) are the environment: a live worker  *)
(* may report a result for a test it was given or exit with any code at    *)
(* any time; collaborators return normally.                                *)
(*                                                                         *)
(* Tests are numbered 1..n here (testId 0..n-1 in the code).               *)
(***************************************************************************)
EXTENDS Integers, Sequences, FiniteSets, TLC

\* ---------------------------------------------------------------- bounds
MaxTests == 2
MaxLesson == 1

\* ------------------------------------------------------------ input sets
NULL == "null"
\* Runner ids the lessons are drawn from; "Ruby" stands for any id the
\* switch statements do not know.
RunnerIds == {"Node", "Ruby"}
Hooks == RunnerIds \cup {NULL}
ExitCodes == {0, 1}
TestIds == 1..MaxTests
WorkerIds == 1..MaxTests
\* Handles of workers that another runTests activation pushed to the pool.
OtherWorkerIds == {MaxTests + 1}
AllWorkerIds == WorkerIds \cup OtherWorkerIds

VARIABLES
  lesson,      \* { beforeAll, beforeEach, afterAll, afterEach, tests } of getLesson
  project,     \* project config read at the start of the run
  pc,          \* position of the runTests activation
  testsState,  \* the run's testsState array
  WORKER_POOL, \* the exported, process-wide array of worker handles
  worker,      \* worker thread status: "none", "live", "exited" (this run's
               \* workers and those of another run in flight)
  exitCode,    \* exit code delivered with a worker's 'exit' event (-1: none yet)
  reported,    \* tests whose 'message' event has been delivered
  handler,     \* activations of workerMessage / the 'exit' callback
  hookRuns,    \* hook blocks entered (for afterAll: the testsState each entry
               \* saw), beforeAll / afterEach blocks left, and the hook
               \* invocations whose catch block ran
  events,      \* pluginEvents notifications sent
  store,       \* what setProjectConfig persisted
  client       \* what was sent over the client socket; panel is the last of
               \* resetBottomPanel ("reset") and updateHints ("hints")

vars == <<lesson, project, pc, testsState, WORKER_POOL, worker, exitCode,
          reported, handler, hookRuns, events, store, client>>

\* -------------------------------------------------------------- helpers
Handlers == {<<"message", i>> : i \in TestIds} \cup {<<"exit", w>> : w \in WorkerIds}

NumTests == Len(lesson.tests)

\* const testers = [beforeAll, beforeEach, afterAll, afterEach, ...tests]
Testers(l) == <<l.beforeAll, l.beforeEach, l.afterAll, l.afterEach>> \o l.tests

NonNullTesters(l) == SelectSeq(Testers(l), LAMBDA t : t # NULL)

\* testers.filter(t => t !== null).at(0).runner
FirstRunner(l) == Head(NonNullTesters(l))

\* Mutant: the loop walks the four hooks and forgets the tests.
RunnerMismatchHooksOnly(l) ==
  \E k \in 1..4 :
    Testers(l)[k] # NULL /\ Testers(l)[k] # FirstRunner(l)

\* the for loop that throws 'All tests and hooks must use the same runner'
RunnerMismatch(l) ==
  \E k \in 1..Len(Testers(l)) :
    Testers(l)[k] # NULL /\ Testers(l)[k] # FirstRunner(l)

\* the cases of the hook switch statements that do not throw
SupportedRunner(r) == r \in {"Node", "Python"}

\* Mutant: every test starts as loading, whatever the mode.
InitialTestsStateLoading ==
  [i \in 1..NumTests |-> [passed |-> FALSE, isLoading |-> TRUE]]

\* tests.map((t, i) => ({ passed: false, ..., isLoading: !project.blockingTests }))
InitialTestsState ==
  [i \in 1..NumTests |-> [passed |-> FALSE, isLoading |-> ~project.blockingTests]]

\* testsState.every(test => test.passed)
EveryPassed(ts) == \A i \in 1..Len(ts) : ts[i].passed

\* Mutant: the terminal block also waits for every test to pass.
AllTestsFinishedAndPassed(ts) == \A i \in 1..Len(ts) : ~ts[i].isLoading /\ ts[i].passed

\* testsState.every(test => !test.isLoading)
AllTestsFinished(ts) == \A i \in 1..Len(ts) : ~ts[i].isLoading

\* Mutant: the last lesson is taken to be numberOfLessons.
ProjectFinishesOffByOne ==
  project.isIntegrated \/ project.currentLesson = project.numberOfLessons

\* project.isIntegrated || lessonNumber === project.numberOfLessons - 1
ProjectFinishes ==
  project.isIntegrated \/ project.currentLesson = project.numberOfLessons - 1

\* WORKER_POOL.indexOf(worker) / splice(index, 1)
RemoveWorkerFromPool(pool, w) == SelectSeq(pool, LAMBDA x : x # w)

\* the worker that was given test i
OwnerOf(i) == IF project.blockingTests THEN 1 ELSE i

\* the runner createWorker was called with for the worker of test i
WorkerRunner(i) == IF project.blockingTests THEN FirstRunner(lesson) ELSE lesson.tests[i]

Inc(rec, f) == [rec EXCEPT ![f] = @ + 1]

\* the runTests activation, as the owner of a hook invocation
RunTestsId == <<"runTests", 0>>

\* logover.error('--<hook>-- hook failed to run:') in the activation id
Failed(hr, hook, id) == [hr EXCEPT !.failed = @ \cup {<<hook, id>>}]

\* ----------------------------------------------------------------- Init
Lessons ==
  [beforeAll : Hooks, beforeEach : Hooks, afterAll : Hooks, afterEach : Hooks,
   tests : UNION {[1..n -> RunnerIds] : n \in 0..MaxTests}]

Projects ==
  [blockingTests : BOOLEAN, isIntegrated : BOOLEAN,
   currentLesson : 0..MaxLesson, numberOfLessons : {MaxLesson + 1}]

Init ==
  /\ lesson \in Lessons
  /\ project \in Projects
  /\ pc = "start"
  /\ testsState = <<>>
  /\ WORKER_POOL = <<>>
  /\ worker = [w \in AllWorkerIds |-> "none"]
  /\ exitCode = [w \in WorkerIds |-> -1]
  /\ reported = {}
  /\ handler = [h \in Handlers |-> [pc |-> "idle", passed |-> FALSE]]
  /\ hookRuns = [beforeAll |-> 0, beforeAllSettled |-> 0, afterAll |-> <<>>,
                 afterEach |-> [w \in WorkerIds |-> 0],
                 afterEachSettled |-> [w \in WorkerIds |-> 0],
                 failed |-> {}]
  /\ events = [testsStart |-> 0, testsEnd |-> 0, lessonPassed |-> 0,
               lessonFailed |-> 0, projectFinished |-> 0]
  /\ store = [currentLesson |-> project.currentLesson, completedDate |-> 0, runLesson |-> 0]
  /\ client = [updateTests |-> 0, hints |-> 0, cancelled |-> {}, panel |-> "none"]

\* ------------------------------------------------------------- runTests
\* Build testsState and call pluginEvents.onTestsStart (lines 92-101).
PublishStart ==
  /\ testsState' = InitialTestsState
  /\ events' = Inc(events, "testsStart")
  /\ pc' = "onTestsStart"

\* Mutant: the beforeAll hook is started but not awaited.
RunTestsHookNotAwaited ==
  /\ pc = "start"
  /\ IF NonNullTesters(lesson) = <<>> \/ RunnerMismatch(lesson)
       THEN /\ pc' = "failed"
            /\ UNCHANGED <<testsState, events, hookRuns>>
       ELSE /\ PublishStart
            /\ hookRuns' = IF lesson.beforeAll # NULL
                             THEN Inc(hookRuns, "beforeAll") ELSE hookRuns
  /\ UNCHANGED <<lesson, project, WORKER_POOL, worker, exitCode, reported,
                 handler, store, client>>

\* runTests from its call to its first await after the runner check
\* (lines 42-101).  An empty testers list makes .at(0).runner throw, a
\* mismatch throws; both land in the outer catch.  An unsupported beforeAll
\* runner throws inside the hook's try and is caught at once.
RunTests ==
  /\ pc = "start"
  /\ IF NonNullTesters(lesson) = <<>> \/ RunnerMismatch(lesson)
       THEN /\ pc' = "failed"
            /\ UNCHANGED <<testsState, events, hookRuns>>
       ELSE IF lesson.beforeAll # NULL
         THEN IF SupportedRunner(lesson.beforeAll)
                THEN /\ hookRuns' = Inc(hookRuns, "beforeAll")
                     /\ pc' = "beforeAll"
                     /\ UNCHANGED <<testsState, events>>
                ELSE /\ hookRuns' = Failed(Inc(Inc(hookRuns, "beforeAll"), "beforeAllSettled"),
                                            "beforeAll", RunTestsId)
                     /\ PublishStart
         ELSE /\ PublishStart
              /\ UNCHANGED hookRuns
  /\ UNCHANGED <<lesson, project, WORKER_POOL, worker, exitCode, reported,
                 handler, store, client>>

\* The awaited beforeAll hook settles, resolved or rejected (lines 76-101);
\* which of the two is not recorded.
BeforeAllDone ==
  /\ pc = "beforeAll"
  /\ hookRuns' = Inc(hookRuns, "beforeAllSettled")
  /\ PublishStart
  /\ UNCHANGED <<lesson, project, WORKER_POOL, worker, exitCode, reported,
                 handler, store, client>>

\* The workers createWorker starts: one in blocking mode, one per test otherwise.
SpawnedWorkers == IF project.blockingTests THEN {1} ELSE 1..NumTests

\* Lines 103-178: publish the list, then create the worker(s), push them to
\* the pool and post the test code; no await in between.
Dispatch ==
  /\ pc = "onTestsStart"
  /\ client' = Inc(client, "updateTests")
  /\ testsState' = [i \in 1..NumTests |-> [testsState[i] EXCEPT !.isLoading = TRUE]]
  /\ worker' = [w \in AllWorkerIds |-> IF w \in SpawnedWorkers THEN "live" ELSE worker[w]]
  /\ WORKER_POOL' = WORKER_POOL \o
       (IF project.blockingTests THEN <<1>> ELSE [i \in 1..NumTests |-> i])
  /\ pc' = "dispatched"
  /\ UNCHANGED <<lesson, project, exitCode, reported, handler, hookRuns,
                 events, store>>

\* ---------------------------------------------------- checkTestsCallback
\* checkTestsCallback from its call to its first await (lines 225-227, 243):
\* `passed` is read from testsState as it is at the call.
CheckTestsCallback(h, ts) ==
  /\ handler' = [handler EXCEPT ![h] = [pc |-> "lessonEvent", passed |-> EveryPassed(ts)]]
  /\ events' = Inc(events, IF EveryPassed(ts) THEN "lessonPassed" ELSE "lessonFailed")

\* Lines 246-269: the terminal block up to its first await.
Teardown(h) ==
  IF AllTestsFinished(testsState)
    THEN IF lesson.afterAll # NULL
      THEN IF SupportedRunner(lesson.afterAll)
             THEN /\ hookRuns' = [hookRuns EXCEPT !.afterAll = Append(@, testsState)]
                  /\ handler' = [handler EXCEPT ![h].pc = "afterAll"]
                  /\ UNCHANGED events
             ELSE /\ hookRuns' = Failed([hookRuns EXCEPT !.afterAll = Append(@, testsState)],
                                         "afterAll", h)
                  /\ handler' = [handler EXCEPT ![h].pc = "onTestsEnd"]
                  /\ events' = Inc(events, "testsEnd")
      ELSE /\ handler' = [handler EXCEPT ![h].pc = "onTestsEnd"]
           /\ events' = Inc(events, "testsEnd")
           /\ UNCHANGED hookRuns
    ELSE /\ handler' = [handler EXCEPT ![h].pc = "done"]
         /\ UNCHANGED <<events, hookRuns>>

\* Lines 229-241 after onLessonPassed resolved: the progression decision.
\* Its awaits (onProjectFinished, setProjectConfig, runLesson) touch only the
\* collaborators and are taken together.
LessonPassed(h) ==
  /\ handler[h].pc = "lessonEvent"
  /\ handler[h].passed
  /\ IF ProjectFinishes
       THEN /\ events' = Inc(events, "projectFinished")
            /\ store' = Inc(store, "completedDate")
       ELSE /\ store' = [store EXCEPT !.currentLesson = project.currentLesson + 1,
                                      !.runLesson = @ + 1]
            /\ UNCHANGED events
  /\ client' = [client EXCEPT !.panel = "reset"]
  /\ handler' = [handler EXCEPT ![h].pc = "progressed"]
  /\ UNCHANGED <<lesson, project, pc, testsState, WORKER_POOL, worker, exitCode,
                 reported, hookRuns>>

\* Line 246 on after the passed branch's last await.
LessonPassedTeardown(h) ==
  /\ handler[h].pc = "progressed"
  /\ Teardown(h)
  /\ UNCHANGED <<lesson, project, pc, testsState, WORKER_POOL, worker, exitCode,
                 reported, store, client>>

\* Lines 243-269 after onLessonFailed resolved: hints, then the terminal block.
LessonFailed(h) ==
  /\ handler[h].pc = "lessonEvent"
  /\ ~handler[h].passed
  /\ client' = [client EXCEPT !.hints = @ + 1, !.panel = "hints"]
  /\ Teardown(h)
  /\ UNCHANGED <<lesson, project, pc, testsState, WORKER_POOL, worker, exitCode,
                 reported, store>>

\* The awaited afterAll hook settles; onTestsEnd is called (lines 254-269).
AfterAllDone(h) ==
  /\ handler[h].pc = "afterAll"
  /\ handler' = [handler EXCEPT ![h].pc = "onTestsEnd"]
  /\ events' = Inc(events, "testsEnd")
  /\ UNCHANGED <<lesson, project, pc, testsState, WORKER_POOL, worker, exitCode,
                 reported, hookRuns, store, client>>

\* onTestsEnd resolved: WORKER_POOL.splice(0, WORKER_POOL.length) (line 270).
TestsEnded(h) ==
  /\ handler[h].pc = "onTestsEnd"
  /\ WORKER_POOL' = <<>>
  /\ handler' = [handler EXCEPT ![h].pc = "done"]
  /\ UNCHANGED <<lesson, project, pc, testsState, worker, exitCode, reported,
                 hookRuns, events, store, client>>

\* -------------------------------------------------------- workerMessage
\* A worker may report test i: it is live, runs a worker script that
\* exists, and has not reported i; the blocking worker takes its tests in
\* the order they were posted.
MayReport(i) ==
  /\ pc = "dispatched"
  /\ i \in 1..NumTests
  /\ worker[OwnerOf(i)] = "live"
  /\ SupportedRunner(WorkerRunner(i))
  /\ i \notin reported
  /\ project.blockingTests => \A j \in 1..(i - 1) : j \in reported

\* 'message' event of test i (lines 180-209).  With an error message the
\* handler awaits the translation before it goes on.
WorkerMessage(i, passed, error) ==
  /\ MayReport(i)
  /\ passed => ~error
  /\ reported' = reported \cup {i}
  /\ testsState' = [testsState EXCEPT ![i] = [passed |-> passed, isLoading |-> FALSE]]
  /\ IF error
       THEN /\ handler' = [handler EXCEPT ![<<"message", i>>].pc = "translate"]
            /\ UNCHANGED events
       ELSE CheckTestsCallback(<<"message", i>>, testsState')
  /\ UNCHANGED <<lesson, project, pc, WORKER_POOL, worker, exitCode, hookRuns,
                 store, client>>

\* The translation resolved (lines 191-209).
WorkerMessageTranslated(i) ==
  /\ handler[<<"message", i>>].pc = "translate"
  /\ CheckTestsCallback(<<"message", i>>, testsState)
  /\ UNCHANGED <<lesson, project, pc, testsState, WORKER_POOL, worker, exitCode,
                 reported, hookRuns, store, client>>

\* ----------------------------------------------------- handleWorkerExit
\* Mutant: the blocking branch fails every test, loading or not.
CancelledStateAllTests(ts, w, code) ==
  IF code # 1 THEN ts
  ELSE IF ~project.blockingTests
    THEN [ts EXCEPT ![w] = [passed |-> FALSE, isLoading |-> FALSE]]
    ELSE [i \in 1..Len(ts) |-> [passed |-> FALSE, isLoading |-> FALSE]]

\* Mutant: the index i is ignored and the loading tests of all workers fail.
CancelledStateIgnoresIndex(ts, w, code) ==
  IF code # 1 THEN ts
  ELSE [i \in 1..Len(ts) |->
          IF ts[i].isLoading THEN [passed |-> FALSE, isLoading |-> FALSE] ELSE ts[i]]

\* Lines 300-322: what the sentinel exit code does to testsState.
CancelledState(ts, w, code) ==
  IF code # 1 THEN ts
  ELSE IF ~project.blockingTests
    THEN [ts EXCEPT ![w] = [passed |-> FALSE, isLoading |-> FALSE]]
    ELSE [i \in 1..Len(ts) |->
            IF ts[i].isLoading THEN [passed |-> FALSE, isLoading |-> FALSE] ELSE ts[i]]

\* The tests a 'Tests cancelled.' console error is published for.
CancelledTests(ts, w, code) ==
  IF code # 1 THEN {}
  ELSE IF ~project.blockingTests THEN {w}
  ELSE {i \in 1..Len(ts) : ts[i].isLoading}

\* Mutant: a cancelled worker skips the hook.
AfterEachRunsUnlessCancelled(code) == lesson.afterEach # NULL /\ code # 1

\* if (afterEach) (line 326): the hook runs whatever the exit code was.
AfterEachRuns(code) == lesson.afterEach # NULL

\* 'exit' event of worker w (lines 120-133 / 160-174, 287-352) up to the
\* first await: the afterEach hook if it runs, else checkTestsCallback's.
WorkerExit(w, code) ==
  /\ worker[w] = "live"
  /\ worker' = [worker EXCEPT ![w] = "exited"]
  /\ exitCode' = [exitCode EXCEPT ![w] = code]
  /\ WORKER_POOL' = RemoveWorkerFromPool(WORKER_POOL, w)
  /\ testsState' = CancelledState(testsState, w, code)
  /\ client' = [client EXCEPT
       !.cancelled = @ \cup CancelledTests(testsState, w, code),
       !.updateTests = IF code = 1 THEN @ + 1 ELSE @]
  /\ IF AfterEachRuns(code)
       THEN IF SupportedRunner(lesson.afterEach)
              THEN /\ hookRuns' = [hookRuns EXCEPT !.afterEach[w] = @ + 1]
                   /\ handler' = [handler EXCEPT ![<<"exit", w>>].pc = "afterEach"]
                   /\ UNCHANGED events
              ELSE /\ hookRuns' = Failed([hookRuns EXCEPT !.afterEach[w] = @ + 1,
                                                          !.afterEachSettled[w] = @ + 1],
                                          "afterEach", <<"exit", w>>)
                   /\ CheckTestsCallback(<<"exit", w>>, testsState')
       ELSE /\ CheckTestsCallback(<<"exit", w>>, testsState')
            /\ UNCHANGED hookRuns
  /\ UNCHANGED <<lesson, project, pc, reported, store>>

\* The awaited afterEach hook settles (lines 330-352).
AfterEachDone(w) ==
  /\ handler[<<"exit", w>>].pc = "afterEach"
  /\ hookRuns' = [hookRuns EXCEPT !.afterEachSettled[w] = @ + 1]
  /\ CheckTestsCallback(<<"exit", w>>, testsState)
  /\ UNCHANGED <<lesson, project, pc, testsState, WORKER_POOL, worker, exitCode,
                 reported, store, client>>

\* ----------------------------------------------------------------- Next
Next ==
  \/ RunTests
  \/ BeforeAllDone
  \/ Dispatch
  \/ \E i \in TestIds, passed \in BOOLEAN, error \in BOOLEAN : WorkerMessage(i, passed, error)
  \/ \E i \in TestIds : WorkerMessageTranslated(i)
  \/ \E w \in WorkerIds, code \in ExitCodes : WorkerExit(w, code)
  \/ \E w \in WorkerIds : AfterEachDone(w)
  \/ \E h \in Handlers : LessonPassed(h)
  \/ \E h \in Handlers : LessonPassedTeardown(h)
  \/ \E h \in Handlers : LessonFailed(h)
  \/ \E h \in Handlers : AfterAllDone(h)
  \/ \E h \in Handlers : TestsEnded(h)

Spec == Init /\ [][Next]_vars

\* ------------------------------------------------- hooks that throw
\* The catch blocks of the three hooks, with the rejection recorded.

\* Mutant: no try around the hook, the rejection reaches the outer catch.
BeforeAllThrowsAborts ==
  /\ pc = "beforeAll"
  /\ hookRuns' = Failed(Inc(hookRuns, "beforeAllSettled"), "beforeAll", RunTestsId)
  /\ pc' = "failed"
  /\ UNCHANGED <<lesson, project, testsState, events, WORKER_POOL, worker,
                 exitCode, reported, handler, store, client>>

\* The awaited beforeAll hook rejects (lines 76-79, 85-101).
BeforeAllThrows ==
  /\ pc = "beforeAll"
  /\ hookRuns' = Failed(Inc(hookRuns, "beforeAllSettled"), "beforeAll", RunTestsId)
  /\ PublishStart
  /\ UNCHANGED <<lesson, project, WORKER_POOL, worker, exitCode, reported,
                 handler, store, client>>

\* The awaited afterEach hook rejects (lines 330-333, 340-352).
AfterEachThrows(w) ==
  /\ handler[<<"exit", w>>].pc = "afterEach"
  /\ hookRuns' = Failed([hookRuns EXCEPT !.afterEachSettled[w] = @ + 1],
                        "afterEach", <<"exit", w>>)
  /\ CheckTestsCallback(<<"exit", w>>, testsState)
  /\ UNCHANGED <<lesson, project, pc, testsState, WORKER_POOL, worker, exitCode,
                 reported, store, client>>

\* The awaited afterAll hook rejects (lines 254-257, 263-269).
AfterAllThrows(h) ==
  /\ handler[h].pc = "afterAll"
  /\ hookRuns' = Failed(hookRuns, "afterAll", h)
  /\ handler' = [handler EXCEPT ![h].pc = "onTestsEnd"]
  /\ events' = Inc(events, "testsEnd")
  /\ UNCHANGED <<lesson, project, pc, testsState, WORKER_POOL, worker, exitCode,
                 reported, store, client>>

\* Lessons that have the three hooks run by runTests, all testers on one
\* runner; first lesson of a project that is not integrated.
InitHookFailures ==
  /\ Init
  /\ \E r \in RunnerIds :
       /\ lesson.beforeAll = r /\ lesson.afterEach = r /\ lesson.afterAll = r
       /\ \A i \in 1..NumTests : lesson.tests[i] = r
  /\ lesson.beforeEach = NULL
  /\ ~project.isIntegrated
  /\ project.currentLesson = 0

NextHookFailures ==
  \/ Next
  \/ BeforeAllThrows
  \/ \E w \in WorkerIds : AfterEachThrows(w)
  \/ \E h \in Handlers : AfterAllThrows(h)

SpecHookFailures == InitHookFailures /\ [][NextHookFailures]_vars

\* ------------------------------------------- a second run shares the pool
\* The pool is process-wide: another runTests activation pushes its workers
\* to the same array, its 'exit' callbacks remove them, and its terminal
\* block splices the array.  Of that run only what it does to WORKER_POOL
\* is kept.

\* WORKER_POOL.push(worker) of the other run (lines 113, 153).
OtherRunDispatch(o) ==
  /\ worker[o] = "none"
  /\ worker' = [worker EXCEPT ![o] = "live"]
  /\ WORKER_POOL' = Append(WORKER_POOL, o)
  /\ UNCHANGED <<lesson, project, pc, testsState, exitCode, reported, handler,
                 hookRuns, events, store, client>>

\* 'exit' callback of a worker of the other run (lines 121-122, 161-162).
OtherWorkerExit(o) ==
  /\ worker[o] = "live"
  /\ worker' = [worker EXCEPT ![o] = "exited"]
  /\ WORKER_POOL' = RemoveWorkerFromPool(WORKER_POOL, o)
  /\ UNCHANGED <<lesson, project, pc, testsState, exitCode, reported, handler,
                 hookRuns, events, store, client>>

\* Line 270 of the other run's checkTestsCallback.
OtherRunTeardown ==
  /\ \E o \in OtherWorkerIds : worker[o] # "none"
  /\ WORKER_POOL' = <<>>
  /\ UNCHANGED <<lesson, project, pc, testsState, worker, exitCode, reported,
                 handler, hookRuns, events, store, client>>

\* Two runs in flight; this run's lesson uses the Node runner throughout
\* and is the first lesson of a project that is not integrated.
InitTwoRuns ==
  /\ Init
  /\ \A k \in 1..Len(Testers(lesson)) : Testers(lesson)[k] \in {"Node", NULL}
  /\ lesson.beforeEach = NULL
  /\ ~project.isIntegrated
  /\ project.currentLesson = 0

NextTwoRuns ==
  \/ Next
  \/ \E o \in OtherWorkerIds : OtherRunDispatch(o)
  \/ \E o \in OtherWorkerIds : OtherWorkerExit(o)
  \/ OtherRunTeardown

SpecTwoRuns == InitTwoRuns /\ [][NextTwoRuns]_vars

\* ------------------------------------------------------------ properties
Pool == {WORKER_POOL[k] : k \in 1..Len(WORKER_POOL)}

ExitHandler(w) == handler[<<"exit", w>>]

\* handler positions inside or after checkTestsCallback
CheckPcs == {"lessonEvent", "progressed", "afterAll", "onTestsEnd", "done"}

Cancelled == [passed |-> FALSE, isLoading |-> FALSE]

\* the 'exit' event of worker w is delivered in this step with this code
ExitsWith(w, code) ==
  worker[w] = "live" /\ worker'[w] = "exited" /\ exitCode'[w] = code

\* C1: in every run the afterAll hook and the tests-end notification each
\* fire exactly once, whatever the interleaving of 'message' and 'exit'
\* events; here, the half a finite run refutes: neither fires a second time.
C1_TeardownExactlyOnce ==
  /\ Len(hookRuns.afterAll) <= 1
  /\ events.testsEnd <= 1

\* C2: when some hook or test has a runner id other than the first resolved
\* one, runTests stops at the check: no worker exists or is pooled,
\* beforeAll was not entered, and neither tests-start nor a test state was
\* sent.
C2_MismatchAbortsBeforeSideEffects ==
  (\E k \in 1..Len(Testers(lesson)) :
      Testers(lesson)[k] # NULL /\ Testers(lesson)[k] # Head(NonNullTesters(lesson)))
  => /\ pc \in {"start", "failed"}
     /\ WORKER_POOL = <<>>
     /\ \A w \in WorkerIds : worker[w] = "none"
     /\ hookRuns.beforeAll = 0
     /\ events.testsStart = 0
     /\ client.updateTests = 0
     /\ testsState = <<>>

C2_Witness ==
  /\ pc = "failed"
  /\ lesson.beforeAll = "Node"
  /\ NumTests = 2
  /\ lesson.tests[2] = "Ruby"

\* C3: blocking mode, the shared worker exits with code 1: every test that
\* was still loading becomes not loading and failed with 'Tests cancelled.'
\* published, and every test that had completed keeps its state.
C3_BlockingCancel ==
  [][\A w \in WorkerIds :
       (project.blockingTests /\ ExitsWith(w, 1))
       => \A i \in 1..Len(testsState) :
            IF testsState[i].isLoading
              THEN testsState'[i] = Cancelled /\ i \in client'.cancelled
              ELSE testsState'[i] = testsState[i] /\ i \notin client'.cancelled]_vars

C3_Witness ==
  /\ project.blockingTests
  /\ NumTests = 2
  /\ exitCode[1] = 1
  /\ reported = {1}
  /\ testsState[1] = [passed |-> TRUE, isLoading |-> FALSE]
  /\ testsState[2] = Cancelled
  /\ client.cancelled = {2}

\* C4: parallel mode, the worker of test w exits with code 1: testsState[w]
\* becomes not loading and failed, every other test's state is unchanged,
\* and every other worker is as live as before and as free to report.
C4_ParallelCancel ==
  [][\A w \in WorkerIds :
       (~project.blockingTests /\ ExitsWith(w, 1))
       => /\ testsState'[w] = Cancelled
          /\ client'.cancelled = client.cancelled \cup {w}
          /\ \A j \in (1..Len(testsState)) \ {w} :
               /\ testsState'[j] = testsState[j]
               /\ worker'[j] = worker[j]
               /\ MayReport(j) => MayReport(j)']_vars

C4_Witness ==
  /\ ~project.blockingTests
  /\ NumTests = 2
  /\ exitCode[1] = 1
  /\ testsState[1] = Cancelled
  /\ worker[2] = "live"
  /\ testsState[2].isLoading
  /\ MayReport(2)

\* C5: the aggregation check is idempotent on a settled testsState: called
\* again with the same testsState, it does not run afterAll a second time.
C5_AggregationIdempotent ==
  \A a, b \in 1..Len(hookRuns.afterAll) :
    a # b => hookRuns.afterAll[a] # hookRuns.afterAll[b]

\* the progression decision of handler h is taken in this step
Decides(h) ==
  handler[h].pc = "lessonEvent" /\ handler[h].passed /\ handler'[h].pc = "progressed"

\* C6: a decision taken with every test passed either reports
\* project-finished and persists a completion date without touching
\* currentLesson (integrated project or last lesson), or persists
\* currentLesson = lessonNumber + 1 and triggers the next lesson without
\* project-finished; and nothing else persists or reports either.
C6_ProgressionDecision ==
  [][/\ \A h \in Handlers :
          Decides(h) =>
            IF project.isIntegrated \/ project.currentLesson = project.numberOfLessons - 1
              THEN /\ events'.projectFinished = events.projectFinished + 1
                   /\ store'.completedDate = store.completedDate + 1
                   /\ store'.currentLesson = store.currentLesson
                   /\ store'.runLesson = store.runLesson
              ELSE /\ store'.currentLesson = project.currentLesson + 1
                   /\ store'.runLesson = store.runLesson + 1
                   /\ events'.projectFinished = events.projectFinished
                   /\ store'.completedDate = store.completedDate
     /\ (store' # store \/ events'.projectFinished # events.projectFinished)
          => \E h \in Handlers : Decides(h)]_vars

C6_Witness ==
  /\ EveryPassed(testsState)
  /\ NumTests = 2
  /\ ~project.isIntegrated
  /\ project.currentLesson = 0
  /\ store.currentLesson = 1
  /\ store.runLesson = 1
  /\ events.projectFinished = 0
  /\ store.completedDate = 0

\* C7: blocking mode, 2 tests, the worker exits with code 1 before any
\* result: both tests are failed and cancelled, afterEach was entered once,
\* and when the exit handler is through, afterAll was entered once and
\* lesson-failed was sent.
C7_BlockingCrashScenario ==
  (project.blockingTests /\ NumTests = 2 /\ exitCode[1] = 1 /\ reported = {})
  => /\ testsState = <<Cancelled, Cancelled>>
     /\ client.cancelled = {1, 2}
     /\ lesson.afterEach # NULL => hookRuns.afterEach[1] = 1
     /\ ExitHandler(1).pc = "done"
          => /\ lesson.afterAll # NULL => Len(hookRuns.afterAll) = 1
             /\ events.lessonFailed = 1
             /\ events.lessonPassed = 0
             /\ events.testsEnd = 1

C7_Witness ==
  /\ project.blockingTests
  /\ NumTests = 2
  /\ exitCode[1] = 1
  /\ reported = {}
  /\ lesson.afterEach = "Node"
  /\ lesson.afterAll = "Node"
  /\ ExitHandler(1).pc = "done"
  /\ events.lessonFailed = 1

\* C8: a run that passed the runner check and has a beforeAll hook enters
\* it exactly once, and the hook has settled before any worker exists.
C8_BeforeAllOnceBeforeWorkers ==
  /\ hookRuns.beforeAll <= 1
  /\ (lesson.beforeAll # NULL /\ pc \notin {"start", "failed"})
       => hookRuns.beforeAll = 1
  /\ (lesson.beforeAll # NULL /\ \E w \in WorkerIds : worker[w] # "none")
       => hookRuns.beforeAll = 1 /\ hookRuns.beforeAllSettled = 1

C8_Witness ==
  /\ lesson.beforeAll = "Node"
  /\ worker[1] = "live"
  /\ worker[2] = "live"
  /\ hookRuns.beforeAllSettled = 1

\* C9: on every worker exit, with any exit code, afterEach (when present)
\* is entered, and it has settled before the aggregation check of that exit
\* handler runs.
C9_AfterEachBeforeCheck ==
  \A w \in WorkerIds :
    (worker[w] = "exited" /\ lesson.afterEach # NULL)
    => /\ hookRuns.afterEach[w] = 1
       /\ ExitHandler(w).pc \in CheckPcs => hookRuns.afterEachSettled[w] = 1
       /\ ExitHandler(w).pc \notin CheckPcs => hookRuns.afterEachSettled[w] = 0

C9_Witness ==
  /\ lesson.afterEach = "Node"
  /\ \E w \in WorkerIds :
       /\ exitCode[w] = 1
       /\ ExitHandler(w).pc = "lessonEvent"
       /\ hookRuns.afterEachSettled[w] = 1

\* C10: a worker leaves WORKER_POOL only through its own exit event, so a
\* worker that was spawned and has not exited is in the pool.
C10_LiveWorkersInPool ==
  \A w \in WorkerIds : worker[w] = "live" => w \in Pool

\* the terminal block of handler h splices the pool in this step
Splices(h) == handler[h].pc = "onTestsEnd" /\ handler'[h].pc = "done"

\* C11: with two runs in flight on the shared WORKER_POOL, the terminal
\* teardown of this run removes only this run's workers: a worker of the
\* other run that is in the pool is still in it afterwards.
C11_TeardownKeepsOtherRun ==
  [][\A h \in Handlers :
       Splices(h) => \A o \in OtherWorkerIds : o \in Pool => o \in Pool']_vars

\* C12: whatever belongs to the progression decision (lesson-passed or
\* lesson-failed report, hints, lesson advance, project finish) happens only
\* with every test settled.
C12_DecisionOnlyWhenSettled ==
  [][(\/ events'.lessonPassed # events.lessonPassed
      \/ events'.lessonFailed # events.lessonFailed
      \/ events'.projectFinished # events.projectFinished
      \/ client'.hints # client.hints
      \/ store' # store)
     => AllTestsFinished(testsState')]_vars

\* every worker of the run has exited and every callback has returned
Quiescent ==
  /\ pc = "dispatched"
  /\ \A w \in WorkerIds : worker[w] # "live"
  /\ \A h \in Handlers : handler[h].pc \in {"idle", "done"}

\* the lesson was advanced or the project finished
Progressed == store.runLesson + events.projectFinished >= 1

\* C13: parallel mode, every worker reports its test's result and exits
\* normally (testsState[i].passed is then the reported outcome of test i):
\* whatever the interleaving was, the run ends with every test settled and
\* with the decision those outcomes call for, pass (panel reset, lesson
\* advanced or project finished) or failure with hints.
C13_ParallelConverges ==
  (/\ ~project.blockingTests
   /\ NumTests >= 1
   /\ Quiescent
   /\ \A i \in 1..NumTests : i \in reported /\ exitCode[i] = 0)
  => /\ AllTestsFinished(testsState)
     /\ client.panel = IF EveryPassed(testsState) THEN "reset" ELSE "hints"
     /\ Progressed <=> EveryPassed(testsState)

\* C14: a hook that fails, by a runtime error or by an unsupported runner
\* id, does not abort the run: after a failed beforeAll the initial state
\* is published and the workers are started, after a failed afterEach the
\* aggregation check of that exit runs, after a failed afterAll tests-end is
\* sent and the pool is cleared.
C14_HookFailureContained ==
  /\ <<"beforeAll", RunTestsId>> \in hookRuns.failed
       => /\ pc \in {"onTestsStart", "dispatched"}
          /\ events.testsStart = 1
          /\ Len(testsState) = NumTests
          /\ pc = "dispatched"
               => /\ client.updateTests >= 1
                  /\ \A w \in WorkerIds :
                       worker[w] # "none" <=>
                         w \in (IF project.blockingTests THEN {1} ELSE 1..NumTests)
  /\ \A w \in WorkerIds :
       <<"afterEach", <<"exit", w>>>> \in hookRuns.failed
         => ExitHandler(w).pc \in CheckPcs
  /\ \A h \in Handlers :
       <<"afterAll", h>> \in hookRuns.failed
         => /\ handler[h].pc \in {"onTestsEnd", "done"}
            /\ events.testsEnd >= 1
            /\ handler[h].pc = "done" => WORKER_POOL = <<>>

C14_Witness ==
  /\ lesson.beforeAll = "Node"
  /\ <<"beforeAll", RunTestsId>> \in hookRuns.failed
  /\ NumTests = 2
  /\ \E w \in WorkerIds :
       /\ <<"afterEach", <<"exit", w>>>> \in hookRuns.failed
       /\ <<"afterAll", <<"exit", w>>>> \in hookRuns.failed
       /\ ExitHandler(w).pc = "done"

\* C15: the first publication of the test list carries, for every test,
\* passed = false and isLoading = !project.blockingTests, comes after
\* tests-start, and finds no worker of the run created or pooled; no worker
\* is created without it.
C15_InitialStateBeforeWorkers ==
  [][/\ (client.updateTests = 0 /\ client'.updateTests = 1)
          => /\ Len(testsState) = NumTests
             /\ \A i \in 1..NumTests :
                  testsState[i] = [passed |-> FALSE, isLoading |-> ~project.blockingTests]
             /\ events.testsStart = 1
             /\ \A w \in WorkerIds : worker[w] = "none" /\ w \notin Pool
     /\ (\E w \in WorkerIds : worker[w] = "none" /\ worker'[w] # "none")
          => client.updateTests = 0 /\ client'.updateTests = 1]_vars

C15_Witness ==
  /\ pc = "dispatched"
  /\ project.blockingTests
  /\ NumTests = 2
  /\ client.updateTests = 1
  /\ worker[1] = "live"
  /\ 1 \in Pool

\* C16: when every hook and test names the same runner and that runner has
\* no worker script, the run stops at the runner check: it never gets to
\* tests-start (so not to the beforeAll hook either) and no worker is created.
C16_UnsupportedRunnerFatal ==
  (/\ NonNullTesters(lesson) # <<>>
   /\ \A k \in 1..Len(Testers(lesson)) :
        Testers(lesson)[k] # NULL
          => /\ Testers(lesson)[k] = Head(NonNullTesters(lesson))
             /\ ~SupportedRunner(Testers(lesson)[k]))
  => /\ pc \in {"start", "failed"}
     /\ events.testsStart = 0
     /\ \A w \in WorkerIds : worker[w] = "none"

\* C17: a run that signalled tests-start, whose workers have all exited and
\* whose callbacks have all returned, has no test left loading and has sent
\* tests-end; a lesson without tests and a worker that exits silently with
\* a code other than 1 are included.
C17_EveryRunTearsDown ==
  (/\ events.testsStart = 1
   /\ pc = "dispatched"
   /\ \A w \in WorkerIds : worker[w] \in {"none", "exited"}
   /\ \A h \in Handlers : handler[h].pc \in {"idle", "done"})
  => /\ \A i \in 1..Len(testsState) : ~testsState[i].isLoading
     /\ events.testsEnd >= 1

\* C18: a result recorded by a worker message as passed stays passed for the
\* rest of the run.
C18_RecordedResultFinal ==
  [][\A i \in 1..Len(testsState) :
       (i \in reported /\ testsState[i].passed /\ ~testsState[i].isLoading)
         => testsState'[i].passed]_vars

\* C19: one run advances the lesson or finishes the project at most once.
C19_ProgressionAtMostOnce ==
  /\ store.runLesson + events.projectFinished <= 1
  /\ store.completedDate <= 1

\* C20: when afterAll starts, every worker of the run has exited and its
\* afterEach invocation, if the lesson has the hook, has completed.
C20_AfterAllAfterWorkers ==
  [][Len(hookRuns'.afterAll) > Len(hookRuns.afterAll)
       => \A w \in SpawnedWorkers :
            /\ worker'[w] = "exited"
            /\ lesson.afterEach # NULL
                 => /\ hookRuns'.afterEach[w] >= 1
                    /\ hookRuns'.afterEachSettled[w] = hookRuns'.afterEach[w]]_vars

====
